---------------------------- MODULE Spec2Model ----------------------------
(***************************************************************************)
(* Photon: the edit-history state machine of ImageEditor.tsx, mounted and  *)
(* unmounted by App.tsx, together with the transport function              *)
(* editImageWithGemini that feeds it.                                      *)
(*                                                                         *)
(* Strings are sequences of tokens; the delimiters ":", ";" and "," are    *)
(* tokens of their own, so split and the media-type pattern are computed   *)
(* as the code computes them.  An optional value (undefined / null in the  *)
(* source) is a sequence of length 0 or 1.                                 *)
(***************************************************************************)
EXTENDS Integers, Sequences, FiniteSets, TLC

(* ------------------------------ bounds -------------------------------- *)
\* longest history the editor is driven to
MaxHist == 3
\* most operations (normalizations, edit requests) awaiting settlement
MaxPending == 2

(* ------------------------- optional values ---------------------------- *)
Undefined == <<>>
Some(v) == <<v>>
IsDefined(o) == o # <<>>
\* `${x}` in a template literal
ToStr(o) == IF IsDefined(o) THEN o[1] ELSE <<"undefined">>
\* !x for an optional string: undefined, null and "" are falsy
Falsy(o) == ~IsDefined(o) \/ o[1] = <<>>

(* ----------------------------- strings -------------------------------- *)
RECURSIVE trimStart(_)
trimStart(s) == IF s # <<>> /\ Head(s) = " " THEN trimStart(Tail(s)) ELSE s

RECURSIVE trimEnd(_)
trimEnd(s) ==
    IF s # <<>> /\ s[Len(s)] = " " THEN trimEnd(SubSeq(s, 1, Len(s) - 1)) ELSE s

\* String.prototype.trim
trim(s) == trimEnd(trimStart(s))

\* index of the first occurrence of token t in s at or after position from, 0 if none
RECURSIVE indexOf(_, _, _)
indexOf(s, t, from) ==
    IF from > Len(s) THEN 0
    ELSE IF s[from] = t THEN from
    ELSE indexOf(s, t, from + 1)

\* String.prototype.split on a one-token separator
RECURSIVE split(_, _)
split(s, sep) ==
    LET i == indexOf(s, sep, 1) IN
    IF i = 0 THEN <<s>>
    ELSE <<SubSeq(s, 1, i - 1)>> \o split(SubSeq(s, i + 1, Len(s)), sep)

\* (variant: header.match(/^(.*?);/), the capture starts at the scheme)
matchMimeTypeFromStart(header) ==
    LET j == indexOf(header, ";", 1)
    IN IF j = 0 THEN Undefined ELSE Some(SubSeq(header, 1, j - 1))

\* header.match(/:(.*?);/): the capture group, Undefined when there is no match
matchMimeType(header) ==
    LET i == indexOf(header, ":", 1)
        j == IF i = 0 THEN 0 ELSE indexOf(header, ";", i + 1)
    IN IF j = 0 THEN Undefined ELSE Some(SubSeq(header, i + 1, j - 1))

(* ------------------------- thrown values ------------------------------ *)
\* new Error(message)
NewError(message) == [isError |-> TRUE, message |-> Some(message)]

MsgInvalidDataUrl == <<"Invalid data URL format">>
MsgNoMimeType == <<"Could not extract MIME type from data URL">>
MsgQuota ==
    <<"You've exceeded your API quota. Please check your plan and billing details.">>
MsgGeneric ==
    <<"An error occurred while communicating with the AI. Please try again later.">>
MsgNoCandidates == <<"No valid candidates returned from the API.">>
MsgNoImage == <<"The AI did not return an image. Please try a different prompt.">>
\* (variant: the reply's words left out of the message)
MsgRefusedBare(newText) == <<"The AI could not edit the image.">>
MsgRefused(newText) == <<"The AI could not edit the image: \"">> \o newText \o <<"\"">>
MsgEnterInstruction == <<"Please enter an editing instruction.">>
MsgUnknown == <<"An unknown error occurred.">>
MsgProcessFailed == <<"Failed to process image.">>

(* --------------------------- the codec -------------------------------- *)
\* `data:${mimeType};base64,${data}`
DataUrl(mimeType, data) == <<"data", ":">> \o mimeType \o <<";", "base64", ",">> \o data

Returned(v) == [threw |-> FALSE, value |-> v, error |-> NewError(<<>>)]
Threw(e) == [threw |-> TRUE, value |-> <<>>, error |-> e]

\* (variant: parts.length < 2, further segments are let through)
dataUrlToPartsLoose(dataUrl) ==
    LET parts == split(dataUrl, ",") IN
    IF Len(parts) < 2 THEN Threw(NewError(MsgInvalidDataUrl))
    ELSE LET mimeTypeMatch == matchMimeType(parts[1]) IN
         IF Falsy(mimeTypeMatch) THEN Threw(NewError(MsgNoMimeType))
         ELSE Returned(<<parts[2], mimeTypeMatch[1]>>)

dataUrlToParts(dataUrl) ==
    LET parts == split(dataUrl, ",") IN
    IF Len(parts) # 2 THEN Threw(NewError(MsgInvalidDataUrl))
    ELSE LET mimeTypeMatch == matchMimeType(parts[1]) IN
         IF Falsy(mimeTypeMatch) THEN Threw(NewError(MsgNoMimeType))
         ELSE Returned(<<parts[2], mimeTypeMatch[1]>>)


(* ------------------- JSON.parse of an error message ------------------- *)
\* A parsed value is <<"null">>, <<"num", n>>, <<"obj">> (no member) or
\* <<"obj", key, value>> (one member).
QuotaCode == 429
NumberTokens == {"429", "500"}
NumberOf(tok) == IF tok = "429" THEN 429 ELSE 500
KeyTokens == {"\"error\"", "\"code\""}

ParseFail == [ok |-> FALSE, val |-> <<"null">>, rest |-> <<>>]
ParseOk(v, rest) == [ok |-> TRUE, val |-> v, rest |-> rest]

RECURSIVE parseValue(_)
parseValue(s) ==
    IF s = <<>> THEN ParseFail
    ELSE IF Head(s) = "null" THEN ParseOk(<<"null">>, Tail(s))
    ELSE IF Head(s) \in NumberTokens THEN ParseOk(<<"num", NumberOf(Head(s))>>, Tail(s))
    ELSE IF Head(s) = "{" THEN
        IF Len(s) >= 2 /\ s[2] = "}" THEN ParseOk(<<"obj">>, SubSeq(s, 3, Len(s)))
        ELSE IF Len(s) >= 3 /\ s[2] \in KeyTokens /\ s[3] = ":" THEN
            LET member == parseValue(SubSeq(s, 4, Len(s))) IN
            IF member.ok /\ member.rest # <<>> /\ Head(member.rest) = "}"
            THEN ParseOk(<<"obj", s[2], member.val>>, Tail(member.rest))
            ELSE ParseFail
        ELSE ParseFail
    ELSE ParseFail

\* JSON.parse(text): throws a SyntaxError unless the whole text is one value
JSONparse(text) ==
    LET r == parseValue(text) IN
    IF r.ok /\ r.rest = <<>> THEN Returned(r.val)
    ELSE Threw(NewError(<<"SyntaxError">>))

\* v?.key
OptMember(o, key) ==
    IF ~IsDefined(o) THEN Undefined
    ELSE LET v == o[1] IN
         IF v[1] = "obj" /\ Len(v) = 3 /\ v[2] = key THEN Some(v[3]) ELSE Undefined

\* errorDetails?.error?.code === 429
IsQuotaBody(errorDetails) ==
    LET code == OptMember(OptMember(Some(errorDetails), "\"error\""), "\"code\"") IN
    IsDefined(code) /\ code[1][1] = "num" /\ code[1][2] = QuotaCode

(* ------------------ the generation capability's reply ----------------- *)
ImagePart(data, mimeType) ==
    [inlineData |-> Some([data |-> data, mimeType |-> mimeType]), text |-> Undefined]
TextPart(text) == [inlineData |-> Undefined, text |-> Some(text)]

\* most content parts in one reply
MaxParts == 2

MimePng == <<"image/png">>
MimeJpeg == <<"image/jpeg">>

\* a media type followed by a parameter
MimeWithParameter == <<"image/svg+xml", ";", "charset=utf-8">>

\* a part with neither inlineData nor text
EmptyPart == [inlineData |-> Undefined, text |-> Undefined]

Parts ==
    { ImagePart(Some(<<"A">>), Some(MimeJpeg)),
      ImagePart(Some(<<"B">>), Undefined),
      ImagePart(Some(<<"A">>), Some(<<>>)),
      ImagePart(Some(<<"A">>), Some(MimeWithParameter)),
      ImagePart(Undefined, Some(MimeJpeg)),
      TextPart(<<"t">>),
      TextPart(<<"u">>),
      TextPart(<<>>),
      EmptyPart }

RECURSIVE SeqsUpTo(_, _)
SeqsUpTo(S, n) ==
    IF n = 0 THEN {<<>>}
    ELSE LET shorter == SeqsUpTo(S, n - 1) IN
         shorter \cup {Append(q, x) : q \in {r \in shorter : Len(r) = n - 1}, x \in S}

WithParts(ps) == [candidates |-> Some(<<[content |-> Some([parts |-> Some(ps)])]>>)]

\* replies without candidates, without a first candidate, without content, without parts
NoContentResponses ==
    { [candidates |-> Undefined],
      [candidates |-> Some(<<>>)],
      [candidates |-> Some(<<[content |-> Undefined]>>)],
      [candidates |-> Some(<<[content |-> Some([parts |-> Undefined])]>>)] }

Responses == NoContentResponses \cup {WithParts(ps) : ps \in SeqsUpTo(Parts, MaxParts)}

\* an Error whose message is the body {"error":{"code":429}}
QuotaBodyError == NewError(<<"{", "\"error\"", ":", "{", "\"code\"", ":", "429", "}", "}">>)

\* what ai.models.generateContent can throw
SdkErrors ==
    { QuotaBodyError,
      NewError(<<"{", "\"error\"", ":", "{", "\"code\"", ":", "500", "}", "}">>),
      NewError(<<"null">>),
      NewError(<<"fetch failed">>),
      [isError |-> FALSE, message |-> Undefined] }

NoResponse == [candidates |-> Undefined]
Resolved(response) == [threw |-> FALSE, error |-> NewError(<<>>), response |-> response]
Rejected(error) == [threw |-> TRUE, error |-> error, response |-> NoResponse]

\* the outcomes of one await ai.models.generateContent(...)
CapabilityOutcomes == {Resolved(r) : r \in Responses} \cup {Rejected(e) : e \in SdkErrors}

\* the outcomes the editor is driven with: an image, an image whose media type is
\* the empty string, a refusal in words, a rejected call
EditorOutcomes ==
    { Resolved(WithParts(<<ImagePart(Some(<<"A">>), Some(MimeJpeg))>>)),
      Resolved(WithParts(<<ImagePart(Some(<<"A">>), Some(<<>>))>>)),
      Resolved(WithParts(<<TextPart(<<"t">>)>>)),
      Rejected(QuotaBodyError) }

(* ---------------------- editImageWithGemini --------------------------- *)
\* (variant: an empty list of parts taken for no parts, ... && parts.length > 0)
HasPartsNonEmpty(response) ==
    /\ IsDefined(response.candidates)
    /\ Len(response.candidates[1]) > 0
    /\ IsDefined(response.candidates[1][1].content)
    /\ IsDefined(response.candidates[1][1].content[1].parts)
    /\ response.candidates[1][1].content[1].parts[1] # <<>>

HasParts(response) ==
    /\ IsDefined(response.candidates)
    /\ Len(response.candidates[1]) > 0
    /\ IsDefined(response.candidates[1][1].content)
    /\ IsDefined(response.candidates[1][1].content[1].parts)

\* (variant: an image already found is kept, if (part.inlineData && !newImageBase64))
RECURSIVE scanPartsFirst(_, _)
scanPartsFirst(parts, acc) ==
    IF parts = <<>> THEN acc
    ELSE LET part == Head(parts) IN
         scanPartsFirst(Tail(parts),
            IF IsDefined(part.inlineData) /\ Falsy(acc.newImageBase64)
            THEN [acc EXCEPT !.newImageBase64 = part.inlineData[1].data,
                             !.newMimeType = part.inlineData[1].mimeType]
            ELSE IF ~IsDefined(part.inlineData) /\ ~Falsy(part.text)
            THEN [acc EXCEPT !.newText = acc.newText \o part.text[1]]
            ELSE acc)

\* the for loop over response.candidates[0].content.parts
RECURSIVE scanParts(_, _)
scanParts(parts, acc) ==
    IF parts = <<>> THEN acc
    ELSE LET part == Head(parts) IN
         scanParts(Tail(parts),
            IF IsDefined(part.inlineData)
            THEN [acc EXCEPT !.newImageBase64 = part.inlineData[1].data,
                             !.newMimeType = part.inlineData[1].mimeType]
            ELSE IF ~Falsy(part.text)
            THEN [acc EXCEPT !.newText = acc.newText \o part.text[1]]
            ELSE acc)

\* from "let newImageBase64" to the return: the reply turned into a result
parseResponse(response, mimeType) ==
    IF ~HasParts(response) THEN Threw(NewError(MsgNoCandidates))
    ELSE LET acc == scanParts(response.candidates[1][1].content[1].parts[1],
                        [newImageBase64 |-> Undefined, newText |-> <<>>,
                         newMimeType |-> Some(mimeType)])
         IN IF Falsy(acc.newImageBase64)
            THEN IF acc.newText # <<>>
                 THEN Threw(NewError(MsgRefused(acc.newText)))
                 ELSE Threw(NewError(MsgNoImage))
            ELSE Returned([imageUrl |-> DataUrl(ToStr(acc.newMimeType), acc.newImageBase64[1]),
                           text |-> acc.newText])

\* services/geminiService.ts: the call is not wrapped, a rejection propagates as it is
editImageWithGemini(image, prompt, outcome) ==
    LET parts == dataUrlToParts(image) IN
    IF parts.threw THEN Threw(parts.error)
    ELSE IF outcome.threw THEN Threw(outcome.error)
    ELSE parseResponse(outcome.response, parts.value[2])

\* part_000, inner try: JSON.parse of the message, throw of the quota error
quotaTry(error) ==
    IF IsDefined(error.message)
    THEN LET errorDetails == JSONparse(error.message[1]) IN
         IF errorDetails.threw THEN Threw(errorDetails.error)
         ELSE IF IsQuotaBody(errorDetails.value) THEN Threw(NewError(MsgQuota))
         ELSE Returned(<<>>)
    ELSE Returned(<<>>)

\* part_000, inner catch (e) { }: the block is empty, whatever the try threw ends here
quotaCatch(attempt) == Returned(<<>>)

\* part_000, catch (error: any) around generateContent
classifyError(error) ==
    LET attempt == quotaTry(error)
        after == IF attempt.threw THEN quotaCatch(attempt) ELSE attempt
    IN IF after.threw THEN after ELSE Threw(NewError(MsgGeneric))

\* part_000: the second copy of the function, with the call wrapped in try/catch
editImageWithGeminiGuarded(image, prompt, outcome) ==
    LET parts == dataUrlToParts(image) IN
    IF parts.threw THEN Threw(parts.error)
    ELSE IF outcome.threw THEN classifyError(outcome.error)
    ELSE parseResponse(outcome.response, parts.value[2])

\* (variant: a rejected call is made once more before the error is handled)
generateContentCallsRetried(image, prompt, outcome) ==
    LET parts == dataUrlToParts(image)
        contents == [inlineData |-> [data |-> parts.value[1], mimeType |-> parts.value[2]],
                     text |-> prompt]
    IN IF parts.threw THEN <<>>
       ELSE IF outcome.threw THEN <<contents, contents>> ELSE <<contents>>

\* the requests one invocation hands to ai.models.generateContent, in either
\* copy: none when the argument does not parse, else the one of the single call
generateContentCalls(image, prompt, outcome) ==
    LET parts == dataUrlToParts(image) IN
    IF parts.threw THEN <<>>
    ELSE <<[inlineData |-> [data |-> parts.value[1], mimeType |-> parts.value[2]],
            text |-> prompt]>>

(* ------------------------ normalizeImage ------------------------------ *)
NoFile == "none"
Files == {"f1", "f2"}

\* canvas.toDataURL('image/png') of the padded square drawn from the file
NormalizedUrl(file) == DataUrl(MimePng, <<file>>)

\* the settlements of the promise normalizeImage(file) returns
NormalizeOutcomes(file) ==
    { Returned(NormalizedUrl(file)),
      Threw(NewError(<<"Image failed to load">>)),
      Threw([isError |-> FALSE, message |-> Undefined]) }

\* A JavaScript number that is a quotient of two integers, kept exact and in
\* lowest terms (the rounding of the double is left out).
RECURSIVE GCD(_, _)
GCD(a, b) == IF b = 0 THEN a ELSE GCD(b, a % b)
Quotient(n, d) == LET g == GCD(n, d) IN [n |-> n \div g, d |-> d \div g]
Whole(k) == Quotient(k, 1)
Minus(a, b) == Quotient(a.n * b.d - b.n * a.d, a.d * b.d)
Half(a) == Quotient(a.n, 2 * a.d)

MAX_DIMENSION == 1024

\* (variant: the comparison turned round, the shorter side takes the full edge)
fitInsideShorter(width, height) ==
    IF width < height
    THEN [newWidth |-> Whole(MAX_DIMENSION),
          newHeight |-> Quotient(height * MAX_DIMENSION, width)]
    ELSE [newHeight |-> Whole(MAX_DIMENSION),
          newWidth |-> Quotient(width * MAX_DIMENSION, height)]

\* newWidth, newHeight: the image fitted inside the square, aspect ratio kept
fitInside(width, height) ==
    IF width > height
    THEN [newWidth |-> Whole(MAX_DIMENSION),
          newHeight |-> Quotient(height * MAX_DIMENSION, width)]
    ELSE [newHeight |-> Whole(MAX_DIMENSION),
          newWidth |-> Quotient(width * MAX_DIMENSION, height)]

\* img.onload: the canvas and the one drawImage call made on it
drawNormalized(width, height) ==
    LET fit == fitInside(width, height)
        x == Half(Minus(Whole(MAX_DIMENSION), fit.newWidth))
        y == Half(Minus(Whole(MAX_DIMENSION), fit.newHeight))
    IN [canvas |-> [width |-> MAX_DIMENSION, height |-> MAX_DIMENSION],
        drawImage |-> [x |-> x, y |-> y, width |-> fit.newWidth, height |-> fit.newHeight]]

(* ------------------------------ sw.js ---------------------------------- *)
MaxFetches == 3

CACHE_NAME == "photon-pwa-v1"
APP_SHELL_URLS == {"/", "/index.html", "/manifest.json"}

\* a Response, as far as the worker looks at it
Response(ok, type, body) == [ok |-> ok, type |-> type, body |-> body]
\* what install has put in the cache with addAll
ShellResponse == Response(TRUE, "basic", "v1")

\* the requests the page makes: the shell, a font of a third party, the call
\* of the Gemini API
Urls == {"/", "https://fonts/css", "https://api/generateContent"}
Methods == {"GET", "POST"}
Requests == [method : Methods, url : Urls]

\* what fetch(event.request) settles with: a response that is ok, one that is
\* not, an opaque one, or a rejection
NetworkResponses ==
    {Response(TRUE, "basic", "v2"), Response(FALSE, "basic", "404"),
     Response(FALSE, "opaque", "")}
NetworkOutcomes == {Returned(r) : r \in NetworkResponses} \cup {Threw(<<"TypeError">>)}

\* the cache storage once the worker is installed and activated: the one cache
\* of the worker, holding the application shell
InstalledCaches ==
    [name \in {CACHE_NAME} |->
        [url \in Urls |-> IF url \in APP_SHELL_URLS THEN Some(ShellResponse) ELSE Undefined]]

\* caches.match(request): the response stored for the request in any cache
cachesMatch(storage, request) ==
    IF request.method = "GET" /\ \E name \in DOMAIN storage : IsDefined(storage[name][request.url])
    THEN storage[CHOOSE name \in DOMAIN storage : IsDefined(storage[name][request.url])][request.url]
    ELSE Undefined

\* cache.put(request, response) on the cache of the worker
cachePut(storage, request, response) ==
    [storage EXCEPT ![CACHE_NAME][request.url] = Some(response)]

\* a fetch event as the worker has handled it so far
FetchEvent(request, stage) ==
    [request |-> request, stage |-> stage, cachedResponse |-> Undefined, fetched |-> FALSE,
     networkResponse |-> Undefined, respondWith |-> Undefined, put |-> FALSE]

(* ------------------------------ state --------------------------------- *)
VARIABLES
    service,        \* which copy of editImageWithGemini the build binds to the import
    imageFile,      \* App: the uploaded file, NoFile when there is none
    history,        \* ImageEditor: the versions, oldest first
    currentIndex,   \* ImageEditor: 0-based cursor, -1 when the history is empty
    prompt,         \* ImageEditor: the instruction typed so far
    isLoading,      \* ImageEditor: the busy flag
    error,          \* ImageEditor: the message shown, Undefined for null
    pending,        \* promises awaited by processImage / handleEdit, oldest first
    event,          \* the handler that ran last and what it did
    call,           \* one invocation followed on its own (editImageWithGemini,
                    \* normalizeImage): what it was given, Undefined when none is
    settled,        \* what that invocation settled with, Undefined before it has
    caches,         \* sw.js: the cache storage, cache name -> url -> response
    fetches         \* sw.js: the fetch events dispatched to the worker, oldest first

vars ==
    <<service, imageFile, history, currentIndex, prompt, isLoading, error, pending, event,
      call, settled, caches, fetches>>
editor == <<history, currentIndex, prompt, isLoading, error>>
transport == <<call, settled>>
worker == <<caches, fetches>>

Services == {"services/geminiService.ts", "part_000"}

Prompts == {<<>>, <<" ">>, <<" ", "a">>}

\* op: the handler; live: its component was still mounted; threw: the awaited call failed
Event(op, live, threw) == [op |-> op, live |-> live, threw |-> threw]
Plain(op) == Event(op, TRUE, FALSE)

\* const currentImageUrl = history[currentIndex]
currentImageUrlOf(h, ci) == IF 0 <= ci /\ ci < Len(h) THEN Some(h[ci + 1]) ELSE Undefined
currentImageUrl == currentImageUrlOf(history, currentIndex)

\* App renders <ImageEditor> only while imageFile is set
Mounted == imageFile # NoFile

\* (variant: the continuation of an unmounted instance still updates the editor)
AppliesAlways(op) == TRUE

\* a state update made by a continuation reaches the component only while the
\* instance that started it is still mounted
Applies(op) == op.live

\* ActionButton: <button disabled={isLoading || props.disabled} {...props}>; the
\* spread comes last, so a disabled prop that was passed replaces the computed value
ActionButtonDisabled(isLoadingProp, props) ==
    IF "disabled" \in DOMAIN props THEN props.disabled
    ELSE isLoadingProp

GenerateDisabled ==
    ActionButtonDisabled(isLoading,
        [disabled |-> (trim(prompt) = <<>> \/ ~IsDefined(currentImageUrl))])
UndoDisabled == ActionButtonDisabled(FALSE, [disabled |-> (currentIndex <= 0 \/ isLoading)])
\* (variant: disabled={currentIndex >= history.length || isLoading})
RedoDisabledPastEnd ==
    ActionButtonDisabled(FALSE, [disabled |-> (currentIndex >= Len(history) \/ isLoading)])
RedoDisabled ==
    ActionButtonDisabled(FALSE, [disabled |-> (currentIndex >= Len(history) - 1 \/ isLoading)])

\* err instanceof Error ? err.message : fallback
MessageOf(err, fallback) == IF err.isError THEN err.message[1] ELSE fallback

EditRequest(h, ci, p) ==
    [kind |-> "edit", live |-> TRUE, file |-> NoFile, history |-> h, currentIndex |-> ci,
     prompt |-> p]
NormalizeRequest(file) ==
    [kind |-> "normalize", live |-> TRUE, file |-> file, history |-> <<>>,
     currentIndex |-> -1, prompt |-> <<>>]

\* (variant: the editor is kept across Start Over, what it awaits stays attached)
OrphanKept(op) == op

\* What an unmounted instance still awaits: of the render it closed over, only the
\* image it sent is still of any use (its setters no longer reach a component).
Orphan(op) ==
    IF op.kind = "edit"
    THEN [op EXCEPT !.live = FALSE, !.history = <<op.history[op.currentIndex + 1]>>,
                    !.currentIndex = 0, !.prompt = <<>>]
    ELSE [op EXCEPT !.live = FALSE]

Remove(q, k) == SubSeq(q, 1, k - 1) \o SubSeq(q, k + 1, Len(q))

\* ImageEditor.tsx imports '../services/geminiService'
ImportedService == "services/geminiService.ts"

Init ==
    /\ service = ImportedService
    /\ imageFile = NoFile
    /\ history = <<>>
    /\ currentIndex = -1
    /\ prompt = <<>>
    /\ isLoading = FALSE
    /\ error = Undefined
    /\ pending = <<>>
    /\ event = Plain("init")
    /\ call = Undefined
    /\ settled = Undefined
    /\ caches = InstalledCaches
    /\ fetches = <<>>

(* --------------------------- App.tsx ---------------------------------- *)
\* handleImageUpload: the uploader exists only while there is no file.  The editor
\* mounts with its initial state and its effect starts processImage.
handleImageUpload(file) ==
    /\ ~Mounted
    /\ Len(pending) < MaxPending
    /\ imageFile' = file
    /\ history' = <<>>
    /\ currentIndex' = -1
    /\ prompt' = <<>>
    /\ isLoading' = TRUE
    /\ error' = Undefined
    /\ pending' = Append(pending, NormalizeRequest(file))
    /\ event' = Plain("handleImageUpload")
    /\ UNCHANGED <<service, transport, worker>>

\* handleResetApp (Start Over): the editor unmounts, its state is gone and what it
\* still awaits has no component left to update
handleResetApp ==
    /\ Mounted
    /\ imageFile' = NoFile
    /\ history' = <<>>
    /\ currentIndex' = -1
    /\ prompt' = <<>>
    /\ isLoading' = FALSE
    /\ error' = Undefined
    /\ pending' = [k \in 1..Len(pending) |-> Orphan(pending[k])]
    /\ event' = Plain("handleResetApp")
    /\ UNCHANGED <<service, transport, worker>>

(* ------------------------ ImageEditor.tsx ----------------------------- *)
\* One step is one synchronous run of a handler or of the continuation of an
\* await: the state updates it makes are rendered together, and no user event
\* comes between them.  A handler reads the state of the render it was created
\* in; the continuation of an await still reads that render's values.
\* (variant: the result is stored whichever instance of the editor asked for it)
processImageSettlesAnyInstance(k, outcome) ==
    LET op == pending[k] IN
    /\ pending' = Remove(pending, k)
    /\ event' = Event("processImageSettled", op.live, outcome.threw)
    /\ Mounted
    /\ isLoading' = FALSE
    /\ IF outcome.threw
       THEN /\ error' = Some(MessageOf(outcome.error, MsgProcessFailed))
            /\ UNCHANGED <<history, currentIndex>>
       ELSE /\ history' = <<outcome.value>>
            /\ currentIndex' = 0
            /\ UNCHANGED error
    /\ UNCHANGED <<prompt, service, imageFile, transport, worker>>

\* processImage after the await: try / catch / finally
processImageSettles(k, outcome) ==
    LET op == pending[k] IN
    /\ pending' = Remove(pending, k)
    /\ event' = Event("processImageSettled", op.live, outcome.threw)
    /\ IF Applies(op)
       THEN /\ isLoading' = FALSE
            /\ IF outcome.threw
               THEN /\ error' = Some(MessageOf(outcome.error, MsgProcessFailed))
                    /\ UNCHANGED <<history, currentIndex>>
               ELSE /\ history' = <<outcome.value>>
                    /\ currentIndex' = 0
                    /\ UNCHANGED error
            /\ UNCHANGED prompt
       ELSE UNCHANGED editor
    /\ UNCHANGED <<service, imageFile, transport, worker>>

NormalizeSettles ==
    \E k \in 1..Len(pending) :
        /\ pending[k].kind = "normalize"
        /\ \E outcome \in NormalizeOutcomes(pending[k].file) : processImageSettles(k, outcome)

\* onChange of the prompt input (disabled while loading)
setPromptTo(value) ==
    /\ Mounted
    /\ ~isLoading
    /\ value # prompt
    /\ prompt' = value
    /\ error' = Undefined
    /\ event' = Plain("onChange")
    /\ UNCHANGED <<service, imageFile, history, currentIndex, isLoading, pending, transport, worker>>

\* (variant: setHistory([...history, imageUrl]), the slice left out)
commitHistoryOfWhole(h, ci, imageUrl) == Append(h, imageUrl)

\* const newHistory = history.slice(0, currentIndex + 1); setHistory([...newHistory, imageUrl])
commitHistory(h, ci, imageUrl) == Append(SubSeq(h, 1, ci + 1), imageUrl)
\* (variant: setCurrentIndex(history.length))
commitIndexOfWhole(h, ci) == Len(h)

\* setCurrentIndex(newHistory.length)
commitIndex(h, ci) == Len(SubSeq(h, 1, ci + 1))

\* handleEdit up to the await: the guard, the busy flag, the call
handleEdit(op) ==
    IF trim(prompt) = <<>> \/ ~IsDefined(currentImageUrl)
    THEN /\ error' = Some(MsgEnterInstruction)
         /\ event' = Plain(op)
         /\ UNCHANGED <<history, currentIndex, prompt, isLoading, pending>>
    ELSE LET parts == dataUrlToParts(currentImageUrl[1]) IN
         IF parts.threw
         THEN \* the call throws before it awaits anything: catch and finally follow
              /\ error' = Some(MessageOf(parts.error, MsgUnknown))
              /\ isLoading' = FALSE
              /\ event' = Event(op, TRUE, TRUE)
              /\ UNCHANGED <<history, currentIndex, prompt, pending>>
         ELSE /\ Len(pending) < MaxPending
              /\ currentIndex + 1 < MaxHist
              /\ isLoading' = TRUE
              /\ error' = Undefined
              /\ pending' = Append(pending, EditRequest(history, currentIndex, prompt))
              /\ event' = Plain(op)
              /\ UNCHANGED <<history, currentIndex, prompt>>

\* a click on the Generate Edit button
ClickGenerate ==
    /\ Mounted
    /\ ~GenerateDisabled
    /\ handleEdit("onClick")
    /\ UNCHANGED <<service, imageFile, transport, worker>>

\* (variant: prompt && currentImageUrl && !isLoading, the trim left out)
keyDownSubmitsUntrimmed(p, url, loading) == p # <<>> /\ IsDefined(url) /\ ~loading

\* prompt.trim() && currentImageUrl && !isLoading
keyDownSubmits(p, url, loading) == trim(p) # <<>> /\ IsDefined(url) /\ ~loading

\* handleKeyDown for Enter without Shift (the input is disabled while loading)
handleKeyDown ==
    /\ Mounted
    /\ ~isLoading
    /\ IF keyDownSubmits(prompt, currentImageUrl, isLoading)
       THEN handleEdit("handleKeyDown")
       ELSE /\ event' = Plain("handleKeyDownIgnored")
            /\ UNCHANGED <<editor, pending>>
    /\ UNCHANGED <<service, imageFile, transport, worker>>

\* the copy of editImageWithGemini the editor's import resolves to
requestEdit(image, p, outcome) ==
    IF service = "part_000" THEN editImageWithGeminiGuarded(image, p, outcome)
    ELSE editImageWithGemini(image, p, outcome)

\* (variant: setIsLoading(false) at the end of the try block, no finally)
handleEditSettlesNoFinally(k, outcome) ==
    LET op == pending[k]
        result == requestEdit(op.history[op.currentIndex + 1], op.prompt, outcome)
    IN
    /\ pending' = Remove(pending, k)
    /\ event' = Event("handleEditSettled", op.live, result.threw)
    /\ IF Applies(op)
       THEN IF result.threw
            THEN /\ error' = Some(MessageOf(result.error, MsgUnknown))
                 /\ UNCHANGED <<history, currentIndex, prompt, isLoading>>
            ELSE /\ history' = commitHistory(op.history, op.currentIndex, result.value.imageUrl)
                 /\ currentIndex' = commitIndex(op.history, op.currentIndex)
                 /\ prompt' = <<>>
                 /\ isLoading' = FALSE
                 /\ UNCHANGED error
       ELSE UNCHANGED editor

\* handleEdit after the await: commit / catch / finally, with the history and
\* the cursor of the render in which the edit was submitted
handleEditSettles(k, outcome) ==
    LET op == pending[k]
        result == requestEdit(op.history[op.currentIndex + 1], op.prompt, outcome)
    IN
    /\ pending' = Remove(pending, k)
    /\ event' = Event("handleEditSettled", op.live, result.threw)
    /\ IF Applies(op)
       THEN /\ isLoading' = FALSE
            /\ IF result.threw
               THEN /\ error' = Some(MessageOf(result.error, MsgUnknown))
                    /\ UNCHANGED <<history, currentIndex, prompt>>
               ELSE /\ history' = commitHistory(op.history, op.currentIndex, result.value.imageUrl)
                    /\ currentIndex' = commitIndex(op.history, op.currentIndex)
                    /\ prompt' = <<>>
                    /\ UNCHANGED error
       ELSE UNCHANGED editor

EditSettles ==
    \E k \in 1..Len(pending) :
        /\ pending[k].kind = "edit"
        /\ \E outcome \in EditorOutcomes : handleEditSettles(k, outcome)
        /\ UNCHANGED <<service, imageFile, transport, worker>>

\* handleUndo: the new cursor
handleUndo(ci) == IF ci > 0 THEN ci - 1 ELSE ci
\* (variant: redo written with undo's assignment)
handleRedoDown(ci, h) == IF ci < Len(h) - 1 THEN ci - 1 ELSE ci

\* handleRedo: the new cursor
handleRedo(ci, h) == IF ci < Len(h) - 1 THEN ci + 1 ELSE ci

ClickUndo ==
    /\ Mounted
    /\ ~UndoDisabled
    /\ currentIndex' = handleUndo(currentIndex)
    /\ event' = Plain("handleUndo")
    /\ UNCHANGED <<service, imageFile, history, prompt, isLoading, error, pending, transport, worker>>

ClickRedo ==
    /\ Mounted
    /\ ~RedoDisabled
    /\ currentIndex' = handleRedo(currentIndex, history)
    /\ event' = Plain("handleRedo")
    /\ UNCHANGED <<service, imageFile, history, prompt, isLoading, error, pending, transport, worker>>

Next ==
    \/ \E file \in Files : handleImageUpload(file)
    \/ handleResetApp
    \/ NormalizeSettles
    \/ \E value \in Prompts : setPromptTo(value)
    \/ ClickGenerate
    \/ handleKeyDown
    \/ EditSettles
    \/ ClickUndo
    \/ ClickRedo

Spec == Init /\ [][Next]_vars

\* what a step of EditSettles does to pending, and no other step does: an
\* awaited edit leaves it
EditSettled ==
    \E k \in 1..Len(pending) : pending[k].kind = "edit" /\ pending' = Remove(pending, k)

\* the promises of normalizeImage and of editImageWithGemini settle in the end
SpecLive == Spec /\ WF_vars(NormalizeSettles) /\ WF_pending(EditSettled)


(* -------- one edit followed through editImageWithGemini --------------- *)
\* The editor shows the last of its versions and an instruction; the edit is
\* submitted and the capability answers with any of CapabilityOutcomes, under
\* either copy of the service.  call and settled keep the arguments, the
\* requests made, the reply and the settlement of the invocation that finished
\* last.
\* what earlier edits can have returned and committed after the normalized upload
ReturnedImages ==
    { DataUrl(MimeJpeg, <<"A">>), DataUrl(<<>>, <<"A">>), DataUrl(<<"undefined">>, <<"B">>),
      DataUrl(MimeWithParameter, <<"A">>) }

TransportHistories ==
    {<<NormalizedUrl("f1")>>} \cup {<<NormalizedUrl("f1"), i>> : i \in ReturnedImages}

InitTransport ==
    /\ service \in Services
    /\ imageFile = "f1"
    /\ history \in TransportHistories
    /\ currentIndex = Len(history) - 1
    /\ prompt = <<" ", "a">>
    /\ isLoading = FALSE
    /\ error = Undefined
    /\ pending = <<>>
    /\ event = Plain("init")
    /\ call = Undefined
    /\ settled = Undefined
    /\ caches = InstalledCaches
    /\ fetches = <<>>

\* Generate Edit is clicked with nothing in flight: handleEdit calls
\* editImageWithGemini(currentImageUrl, prompt); a call that throws on its
\* argument has settled before anything is awaited
Invoke ==
    /\ pending = <<>>
    /\ ~GenerateDisabled
    /\ handleEdit("onClick")
    /\ LET parts == dataUrlToParts(currentImageUrl[1]) IN
       IF parts.threw
       THEN /\ call' = Some([image |-> currentImageUrl[1], prompt |-> prompt,
                             requests |-> generateContentCalls(currentImageUrl[1], prompt,
                                                               Resolved(NoResponse)),
                             outcome |-> Undefined])
            /\ settled' = Some(Threw(parts.error))
       ELSE /\ call' = Undefined
            /\ settled' = Undefined
    /\ UNCHANGED <<service, imageFile, worker>>

\* generateContent answers and the promise of editImageWithGemini settles
Settle ==
    /\ pending # <<>>
    /\ \E outcome \in CapabilityOutcomes :
        LET op == pending[1]
            image == op.history[op.currentIndex + 1]
        IN
        /\ handleEditSettles(1, outcome)
        /\ call' = Some([image |-> image, prompt |-> op.prompt,
                         requests |-> generateContentCalls(image, op.prompt, outcome),
                         outcome |-> Some(outcome)])
        /\ settled' = Some(requestEdit(image, op.prompt, outcome))
    /\ UNCHANGED <<service, imageFile, worker>>

NextTransport == Invoke \/ Settle

SpecTransport == InitTransport /\ [][NextTransport]_vars


(* ------- editImageWithGemini called on any string that is no blob: URL ---- *)
MaxLen == 5
\* the delimiters dataUrlToParts looks for, and one token that is none of them
Tokens == {":", ";", ",", "x"}
MediaTypes == {MimePng, MimeJpeg, <<>>, <<"undefined">>, MimeWithParameter}
Payloads == {<<>>, <<"A">>, <<"f1">>}
CodecInputs ==
    {DataUrl(m, p) : m \in MediaTypes, p \in Payloads} \cup SeqsUpTo(Tokens, MaxLen)

InitCodec ==
    /\ service \in Services
    /\ imageFile = NoFile
    /\ history = <<>>
    /\ currentIndex = -1
    /\ prompt = <<>>
    /\ isLoading = FALSE
    /\ error = Undefined
    /\ pending = <<>>
    /\ event = Plain("init")
    /\ call \in {Some([image |-> i, prompt |-> <<" ", "a">>, requests |-> <<>>,
                       outcome |-> Undefined]) : i \in CodecInputs}
    /\ settled = Undefined
    /\ caches = InstalledCaches
    /\ fetches = <<>>

\* editImageWithGemini(image, prompt) runs to its settlement
Call ==
    /\ ~IsDefined(settled)
    /\ \E outcome \in EditorOutcomes :
        /\ call' = Some([call[1] EXCEPT
                        !.requests = generateContentCalls(call[1].image, call[1].prompt, outcome),
                        !.outcome = IF dataUrlToParts(call[1].image).threw THEN Undefined
                                    ELSE Some(outcome)])
        /\ settled' = Some(requestEdit(call[1].image, call[1].prompt, outcome))
    /\ event' = Plain("editImageWithGemini")
    /\ UNCHANGED <<service, imageFile, editor, pending, worker>>

NextCodec == Call

SpecCodec == InitCodec /\ [][NextCodec]_vars

(* ============================== claims ================================ *)
LiveEdits == {k \in 1..Len(pending) : pending[k].kind = "edit" /\ pending[k].live}
\* the positions of pending whose removal gives pending'
SettledAt == {k \in 1..Len(pending) : pending' = Remove(pending, k)}
EditCommitted == event'.op = "handleEditSettled" /\ event'.live /\ ~event'.threw
EditFailed == event'.op = "handleEditSettled" /\ event'.live /\ event'.threw

\* C1: in every reachable state the cursor is -1 when the history is empty and a
\* valid index of the history otherwise, so history[currentIndex] is defined
\* exactly when the history is non-empty.
C1_CursorInBounds ==
    /\ IF history = <<>> THEN currentIndex = -1
       ELSE 0 <= currentIndex /\ currentIndex < Len(history)
    /\ IsDefined(currentImageUrl) <=> history # <<>>

\* a second request fails after the first one committed and the user went back
C1_Witness ==
    /\ event.op = "handleEditSettled" /\ event.live /\ event.threw
    /\ Len(history) >= 2 /\ currentIndex < Len(history) - 1

\* C2: a successful edit committed while the cursor is at i leaves the versions
\* 0..i of the history it finds, followed by the one new image, and the cursor at
\* i + 1, the last index.
C2_CommitAtCursor ==
    [][EditCommitted =>
        /\ history' = Append(SubSeq(history, 1, currentIndex + 1), history'[Len(history')])
        /\ currentIndex' = currentIndex + 1
        /\ currentIndex' = Len(history') - 1]_vars

\* C3: at most one edit request of the mounted editor is outstanding.
C3_AtMostOneOutstanding == Cardinality(LiveEdits) <= 1

\* C4: the result of an edit request that was in flight when the editor was reset
\* is dropped: when it arrives, nothing of the editor changes, whether or not a
\* new image has been uploaded meanwhile.
C4_StaleResultDropped ==
    [][(event'.op = "handleEditSettled" /\ ~event'.live) => UNCHANGED <<editor, imageFile>>]_vars

\* an edit of an earlier session returns an image while the next session has a history
C4_Witness ==
    /\ event.op = "handleEditSettled" /\ ~event.live /\ ~event.threw
    /\ Mounted /\ history # <<>>

\* C5: when an edit request fails, the history and the cursor are those of the
\* moment the request was submitted.
C5_FailureRestoresSubmitted ==
    [][/\ EditFailed =>
            \E k \in SettledAt :
                history' = pending[k].history /\ currentIndex' = pending[k].currentIndex
       /\ (event'.op \in {"onClick", "handleKeyDown"} /\ event'.threw) =>
            UNCHANGED <<history, currentIndex>>]_vars

\* C6: undo at cursor 0 and redo at the last index change nothing, otherwise they
\* move the cursor by exactly one; neither touches the history; undo followed by
\* redo from a cursor > 0 gives the cursor back.
C6_UndoRedo ==
    /\ [](history # <<>> =>
            /\ currentIndex = 0 => handleUndo(currentIndex) = currentIndex
            /\ currentIndex > 0 => handleUndo(currentIndex) = currentIndex - 1
            /\ currentIndex = Len(history) - 1 => handleRedo(currentIndex, history) = currentIndex
            /\ currentIndex < Len(history) - 1 =>
                    handleRedo(currentIndex, history) = currentIndex + 1
            /\ currentIndex > 0 => handleRedo(handleUndo(currentIndex), history) = currentIndex)
    /\ [][/\ event'.op = "handleUndo" =>
                /\ history' = history
                /\ currentIndex' = IF currentIndex = 0 THEN 0 ELSE currentIndex - 1
          /\ event'.op = "handleRedo" =>
                /\ history' = history
                /\ currentIndex' = IF currentIndex = Len(history) - 1 THEN currentIndex
                                   ELSE currentIndex + 1]_vars

\* redo has brought the cursor back to the last of several versions
C6_Witness == event.op = "handleRedo" /\ Len(history) >= 2 /\ currentIndex = Len(history) - 1

\* C7: an upload empties the history (cursor -1) for as long as its normalization
\* runs; when the normalization succeeds the history is exactly the normalized
\* image of the uploaded file, cursor 0; every history starts with the normalized
\* image of the file of its own session.
C7_FreshHistory ==
    /\ []((\E k \in 1..Len(pending) : pending[k].kind = "normalize" /\ pending[k].live) =>
            history = <<>> /\ currentIndex = -1)
    /\ []((Mounted /\ history # <<>>) => history[1] = NormalizedUrl(imageFile))
    /\ [][/\ event'.op = "handleImageUpload" => history' = <<>> /\ currentIndex' = -1
          /\ (event'.op = "processImageSettled" /\ event'.live /\ ~event'.threw) =>
                history' = <<NormalizedUrl(imageFile)>> /\ currentIndex' = 0]_vars

\* a normalization succeeds while a request of the session before is still awaited
C7_Witness ==
    /\ event.op = "processImageSettled" /\ event.live /\ ~event.threw
    /\ history = <<NormalizedUrl(imageFile)>>
    /\ \E k \in 1..Len(pending) : pending[k].kind = "edit" /\ ~pending[k].live

\* Enter pressed on an instruction that is empty after trimming
BlankSubmission == event'.op = "handleKeyDownIgnored" /\ trim(prompt) = <<>>

\* C8 as stated: a submission of a blank instruction reports an error and leaves
\* history, cursor, busy flag and the awaited requests as they were.
C8_BlankReportsError ==
    [][BlankSubmission =>
        /\ error' = Some(MsgEnterInstruction)
        /\ UNCHANGED <<history, currentIndex, isLoading, pending>>]_vars

\* C8 amended: a submission of a blank instruction is ignored: no request is
\* started, and history, cursor, busy flag and error message stay as they were;
\* the button is disabled for it and handleEdit never runs on it.
C8_BlankIgnored ==
    /\ [](trim(prompt) = <<>> => GenerateDisabled)
    /\ [][/\ BlankSubmission => UNCHANGED <<editor, pending>>
          /\ event'.op \in {"onClick", "handleKeyDown"} => trim(prompt) # <<>>]_vars

\* Enter was pressed on a whitespace-only instruction with an image to edit
C8_Witness ==
    event.op = "handleKeyDownIgnored" /\ prompt = <<" ">> /\ IsDefined(currentImageUrl)

\* the invocation was given a well-formed image and generateContent rejected with e
RejectedWith(e) ==
    /\ IsDefined(settled)
    /\ ~dataUrlToParts(call[1].image).threw
    /\ call[1].outcome[1].threw
    /\ call[1].outcome[1].error = e

\* C9: a rejection whose message is the body {"error":{"code":429}} makes
\* editImageWithGemini fail with the quota message, not the generic one.
C9_QuotaError ==
    RejectedWith(QuotaBodyError) =>
        settled[1].threw /\ settled[1].error = NewError(MsgQuota) /\ MsgQuota # MsgGeneric

\* C10: any other rejection makes editImageWithGemini fail with the one generic
\* message, whatever the rejection carried.
C10_GenericError ==
    \A e \in SdkErrors \ {QuotaBodyError} :
        RejectedWith(e) => settled[1].threw /\ settled[1].error = NewError(MsgGeneric)


(* ------------- normalizeImage on an image of any size ----------------- *)
MaxSide == 8
\* widths and heights of the decoded image: the small ones, and two large ones
Sides == (1..MaxSide) \cup {1000, 2000}

InitNormalize ==
    /\ service = ImportedService
    /\ imageFile = NoFile
    /\ history = <<>>
    /\ currentIndex = -1
    /\ prompt = <<>>
    /\ isLoading = FALSE
    /\ error = Undefined
    /\ pending = <<>>
    /\ event = Plain("init")
    /\ call \in {Some([width |-> w, height |-> h]) : w \in Sides, h \in Sides}
    /\ settled = Undefined
    /\ caches = InstalledCaches
    /\ fetches = <<>>

\* img.onload: the picture is drawn on the canvas and the promise resolves
imgOnload ==
    /\ ~IsDefined(settled)
    /\ settled' = Some(Returned(drawNormalized(call[1].width, call[1].height)))
    /\ event' = Plain("img.onload")
    /\ UNCHANGED <<service, imageFile, editor, pending, call, worker>>

\* img.onerror: the bytes are no image, the promise rejects
imgOnerror ==
    /\ ~IsDefined(settled)
    /\ settled' = Some(Threw(NewError(<<"Image failed to load">>)))
    /\ event' = Plain("img.onerror")
    /\ UNCHANGED <<service, imageFile, editor, pending, call, worker>>

NextNormalize == imgOnload \/ imgOnerror

SpecNormalize == InitNormalize /\ [][NextNormalize]_vars


(* ---------------- claims about superseded uploads -------------------- *)
Normalizations == {k \in 1..Len(pending) : pending[k].kind = "normalize"}

\* C19: the normalization of an image that has been replaced is discarded.  When
\* it settles, before or after the other, nothing of the editor changes; the
\* only normalization that is applied is that of the image supplied last, and
\* when it succeeds the history is exactly that normalized image, cursor 0,
\* whether or not the earlier one is still awaited; so once both have settled
\* the history begins with the normalized image supplied last.
C19_EarlierNormalizationDiscarded ==
    /\ [][\A k \in SettledAt :
            (pending[k].kind = "normalize" /\ ~pending[k].live) =>
                UNCHANGED <<editor, imageFile>>]_vars
    /\ [](\A k \in Normalizations :
            pending[k].live => (pending[k].file = imageFile /\ history = <<>>))
    /\ []((Mounted /\ Normalizations = {} /\ history # <<>>) =>
            history[1] = NormalizedUrl(imageFile))
    /\ []((event.op = "processImageSettled" /\ event.live /\ ~event.threw) =>
            (history = <<NormalizedUrl(imageFile)>> /\ currentIndex = 0))

\* the normalization of the replaced image returns last, after that of the new
\* image has been applied: the history is still the new image alone
C19_Witness ==
    /\ event.op = "processImageSettled" /\ ~event.live /\ ~event.threw
    /\ Mounted /\ Normalizations = {}
    /\ history = <<NormalizedUrl(imageFile)>> /\ currentIndex = 0


(* ---------------------- claims about lineage -------------------------- *)
\* the image an awaited edit was submitted with
SourceOf(op) == op.history[op.currentIndex + 1]

\* C20: an edit is submitted with the version under the cursor; when it succeeds
\* the history becomes the versions up to that source, as the edit saw them,
\* followed by the result, with the cursor on the result; and the history changes
\* in no other way than by such a commit, by emptying, or by becoming the one
\* normalized upload.  Hence every version after the first stands right after the
\* version it was made from.
C20_Lineage ==
    /\ [][Len(pending') > Len(pending) /\ pending'[Len(pending')].kind = "edit" =>
            /\ IsDefined(currentImageUrl)
            /\ SourceOf(pending'[Len(pending')]) = currentImageUrl[1]
            /\ SourceOf(pending'[Len(pending')]) = history[currentIndex + 1]]_vars
    /\ [][EditCommitted =>
            \A k \in SettledAt :
                (pending[k].kind = "edit" /\ pending[k].live) =>
                    /\ Len(history') >= 2
                    /\ history'[Len(history') - 1] = SourceOf(pending[k])
                    /\ SubSeq(history', 1, Len(history') - 1)
                            = SubSeq(pending[k].history, 1, pending[k].currentIndex + 1)
                    /\ currentIndex' = Len(history') - 1]_vars
    /\ [][history' # history =>
            \/ EditCommitted
            \/ history' = <<>>
            \/ history' = <<NormalizedUrl(imageFile)>>]_vars

\* an edit submitted twice from the first version commits for the second time,
\* replacing the version a later edit, still awaited, was made from
C20_Witness ==
    /\ event.op = "handleEditSettled" /\ event.live /\ ~event.threw
    /\ Len(history) = 2 /\ currentIndex = 1
    /\ \E k \in LiveEdits :
        /\ Len(pending[k].history) = 2 /\ pending[k].currentIndex = 1
        /\ SourceOf(pending[k]) # history[2]


(* ------------------- claims about one invocation ---------------------- *)
\* the invocation was given a well-formed image and generateContent resolved
Replied ==
    /\ IsDefined(settled)
    /\ ~dataUrlToParts(call[1].image).threw
    /\ ~call[1].outcome[1].threw

TheReply == call[1].outcome[1].response
\* the content parts of the reply, when it has any list of them
ReplyHasParts == Replied /\ TheReply \notin NoContentResponses
ReplyParts == TheReply.candidates[1][1].content[1].parts[1]

ImageAt(ps) == {i \in 1..Len(ps) : IsDefined(ps[i].inlineData)}
ImageWithDataAt(ps) == {i \in ImageAt(ps) : ~Falsy(ps[i].inlineData[1].data)}
TextAt(ps) == {i \in 1..Len(ps) : ~IsDefined(ps[i].inlineData) /\ IsDefined(ps[i].text)}
Greatest(S) == CHOOSE i \in S : \A j \in S : j <= i
LastImage(ps) == ps[Greatest(ImageAt(ps))].inlineData[1]

\* the text of the text parts, first to last
RECURSIVE AllText(_)
AllText(ps) ==
    IF ps = <<>> THEN <<>>
    ELSE AllText(SubSeq(ps, 1, Len(ps) - 1))
            \o (IF Len(ps) \in TextAt(ps) THEN ps[Len(ps)].text[1] ELSE <<>>)

\* the payload of a transport string: what follows its comma
PayloadOf(url) == LET segments == split(url, ",") IN segments[Len(segments)]

Result == settled[1].value

\* C11 as stated: whenever some inline-image part of the reply carries data, the
\* call returns the last inline-image part as the image and the text of all text
\* parts, in order, as the commentary.
C11_LastImageOfAny ==
    (ReplyHasParts /\ ImageWithDataAt(ReplyParts) # {}) =>
        /\ ~settled[1].threw
        /\ PayloadOf(Result.imageUrl) = LastImage(ReplyParts).data[1]
        /\ Result.text = AllText(ReplyParts)

\* C11 amended: whenever the last inline-image part of the reply carries data,
\* the call returns that part as the image (its payload, and its media type when
\* it states one) and the text of all text parts, in order, as the commentary.
C11_LastImageWins ==
    (ReplyHasParts /\ ImageAt(ReplyParts) # {}
        /\ Greatest(ImageAt(ReplyParts)) \in ImageWithDataAt(ReplyParts)) =>
        /\ ~settled[1].threw
        /\ PayloadOf(Result.imageUrl) = LastImage(ReplyParts).data[1]
        /\ IsDefined(LastImage(ReplyParts).mimeType) =>
                Result.imageUrl = DataUrl(LastImage(ReplyParts).mimeType[1],
                                          LastImage(ReplyParts).data[1])
        /\ Result.text = AllText(ReplyParts)

\* two inline images were returned and the second, a different one, is the result
C11_Witness ==
    /\ ReplyHasParts /\ ~settled[1].threw
    /\ Cardinality(ImageWithDataAt(ReplyParts)) = 2
    /\ ReplyParts[1].inlineData[1].data # ReplyParts[2].inlineData[1].data
    /\ PayloadOf(Result.imageUrl) = ReplyParts[2].inlineData[1].data[1]


\* the media type of the image the invocation was given
RequestMimeType == dataUrlToParts(call[1].image).value[2]

\* C12: when the inline-image part that is returned states no media type, the
\* result carries the media type of the image that was sent.
C12_DefaultMediaType ==
    (ReplyHasParts /\ ~settled[1].threw /\ ~IsDefined(LastImage(ReplyParts).mimeType)) =>
        Result.imageUrl = DataUrl(RequestMimeType, LastImage(ReplyParts).data[1])

\* the editor is as it was before the edit but for the message: the version that
\* was sent is still the only one, nothing is awaited
NothingCommitted ==
    /\ history \in TransportHistories
    /\ currentIndex = Len(history) - 1
    /\ currentImageUrl = Some(call[1].image)
    /\ pending = <<>>
    /\ ~isLoading

RefusedPrefix == "The AI could not edit the image: \""
Message == settled[1].error.message[1]

\* C13: a reply with text and no image makes the call fail with the refusal
\* message, whose quoted words are the text of the text parts in order; nothing
\* is returned, the history and the cursor stay, the message is what is shown.
C13_RefusedWithText ==
    (ReplyHasParts /\ ImageWithDataAt(ReplyParts) = {} /\ AllText(ReplyParts) # <<>>) =>
        /\ settled[1].threw /\ settled[1].value = <<>>
        /\ settled[1].error.isError
        /\ Message[1] = RefusedPrefix
        /\ SubSeq(Message, 2, Len(Message) - 1) = AllText(ReplyParts)
        /\ NothingCommitted
        /\ error = Some(Message)

\* two text parts with different words were returned, and no image
C13_Witness ==
    /\ ReplyHasParts /\ settled[1].threw
    /\ TextAt(ReplyParts) = {1, 2}
    /\ ReplyParts[1].text[1] # <<>> /\ ReplyParts[2].text[1] # <<>>
    /\ ReplyParts[1].text # ReplyParts[2].text
    /\ Len(Message) = 4

\* C14: a reply without candidates, content or parts fails with the
\* no-candidates message; a reply whose parts hold no text and no image fails
\* with the no-image message; the two messages differ from each other and from
\* a refusal, and in both cases nothing is returned or committed.
C14_ShapeFailures ==
    /\ (Replied /\ TheReply \in NoContentResponses) =>
            /\ settled[1].threw /\ settled[1].value = <<>>
            /\ Message = <<"No valid candidates returned from the API.">>
            /\ NothingCommitted
    /\ (ReplyHasParts /\ ImageWithDataAt(ReplyParts) = {} /\ AllText(ReplyParts) = <<>>) =>
            /\ settled[1].threw /\ settled[1].value = <<>>
            /\ Message = <<"The AI did not return an image. Please try a different prompt.">>
            /\ NothingCommitted
    /\ MsgNoCandidates # MsgNoImage
    /\ MsgNoCandidates[1] # RefusedPrefix /\ MsgNoImage[1] # RefusedPrefix

\* a list of two parts, neither with words nor with an image, was returned
C14_Witness ==
    /\ ReplyHasParts /\ settled[1].threw
    /\ Len(ReplyParts) = 2
    /\ ImageWithDataAt(ReplyParts) = {} /\ AllText(ReplyParts) = <<>>
    /\ error = Some(MsgNoImage)


\* C17: one invocation hands at most one request to generateContent, whatever
\* the outcome; when an edit has failed nothing is awaited any more, and a request
\* is only ever started by a step in which the user submits.
C17_NoRetry ==
    /\ [](IsDefined(call) => Len(call[1].requests) <= 1)
    /\ [][(IsDefined(settled') /\ settled' # settled /\ settled'[1].threw) =>
            (pending' = <<>> /\ ~isLoading')]_vars
    /\ [][Len(pending') > Len(pending) => event'.op = "onClick"]_vars

\* generateContent rejected: one request was made, the failure is shown, nothing
\* is awaited
C17_Witness ==
    /\ IsDefined(settled) /\ settled[1].threw
    /\ IsDefined(call[1].outcome) /\ call[1].outcome[1].threw
    /\ Len(call[1].requests) = 1
    /\ pending = <<>> /\ ~isLoading
    /\ IsDefined(error)

(* --------------------- claims about the data URL ---------------------- *)
\* the one request that carries payload p under media type m
RequestOf(m, p) ==
    <<[inlineData |-> [data |-> p, mimeType |-> m], text |-> call[1].prompt]>>

\* a media type without parameter: not empty, no ';' and no ',' in it
PlainMediaTypes ==
    {m \in MediaTypes : m # <<>> /\ \A i \in 1..Len(m) : m[i] \notin {";", ","}}

\* C15 as stated: whatever the media type m and the payload p, a call on
\* data:<m>;base64,<p> sends exactly payload p under media type m.
C15_RoundTrip ==
    IsDefined(settled) =>
        \A m \in MediaTypes, p \in Payloads :
            call[1].image = DataUrl(m, p) => call[1].requests = RequestOf(m, p)

\* C15 amended: for a media type m that is not empty and has no parameter, and
\* any payload p, a call on data:<m>;base64,<p> sends exactly p under m.
C15_RoundTripPlain ==
    IsDefined(settled) =>
        \A m \in PlainMediaTypes, p \in Payloads :
            call[1].image = DataUrl(m, p) => call[1].requests = RequestOf(m, p)

\* a call on data:image/jpeg;base64,A has been made and has sent (A, image/jpeg)
C15_Witness ==
    /\ IsDefined(settled)
    /\ call[1].image = DataUrl(MimeJpeg, <<"A">>)
    /\ call[1].requests = RequestOf(MimeJpeg, <<"A">>)
    /\ MimeJpeg \in PlainMediaTypes

Positions(s, t) == {i \in 1..Len(s) : s[i] = t}
Least(S) == CHOOSE i \in S : \A j \in S : i <= j
\* the segments between commas, counted without splitting
Segments(s) == Cardinality(Positions(s, ",")) + 1
HeaderOf(s) == SubSeq(s, 1, Least(Positions(s, ",")) - 1)
\* no ':' in the header, no ';' after the first ':', or nothing between the two
NoMediaType(header) ==
    \/ Positions(header, ":") = {}
    \/ LET i == Least(Positions(header, ":"))
           after == {j \in Positions(header, ";") : j > i}
       IN after = {} \/ Least(after) = i + 1

FormatMessages == {<<"Invalid data URL format">>, <<"Could not extract MIME type from data URL">>}

\* C16: a string that does not have exactly two comma-separated segments, or
\* whose header has no non-empty media type between ':' and ';', makes the call
\* fail with one of the two format errors, and no request is made.
C16_FormatError ==
    (IsDefined(settled)
        /\ (Segments(call[1].image) # 2 \/ NoMediaType(HeaderOf(call[1].image)))) =>
        /\ settled[1].threw /\ settled[1].error.isError
        /\ settled[1].error.message[1] \in FormatMessages
        /\ call[1].requests = <<>>

\* a call on a string of three segments whose header is well formed has failed
C16_Witness ==
    /\ IsDefined(settled)
    /\ Segments(call[1].image) = 3
    /\ ~NoMediaType(HeaderOf(call[1].image))
    /\ settled[1].threw
    /\ call[1].requests = <<>>


(* --------------------- claims about the canvas ------------------------ *)
Drawn == settled[1].value.drawImage
\* a quotient compared with, and added to, another
Equals(a, b) == a.n * b.d = b.n * a.d
AtMost(a, b) == a.n * b.d <= b.n * a.d
Plus(a, b) == [n |-> a.n * b.d + b.n * a.d, d |-> a.d * b.d]

\* C18: the canvas is 1024 x 1024; the longer side of the image becomes 1024 and
\* the other keeps the proportion (newW * h = w * newH); the picture lies inside
\* the canvas with the same padding on both sides of each axis; a 2000 x 1000
\* image is drawn 1024 x 512 at (0, 256).
C18_FitsCentred ==
    (IsDefined(settled) /\ ~settled[1].threw) =>
        LET w == call[1].width
            h == call[1].height
        IN
        /\ settled[1].value.canvas = [width |-> 1024, height |-> 1024]
        /\ w >= h => Equals(Drawn.width, Whole(1024))
        /\ h >= w => Equals(Drawn.height, Whole(1024))
        /\ Drawn.width.n * h * Drawn.height.d = w * Drawn.height.n * Drawn.width.d
        /\ AtMost(Whole(0), Drawn.x) /\ AtMost(Whole(0), Drawn.y)
        /\ AtMost(Plus(Drawn.x, Drawn.width), Whole(1024))
        /\ AtMost(Plus(Drawn.y, Drawn.height), Whole(1024))
        /\ Equals(Plus(Plus(Drawn.x, Drawn.x), Drawn.width), Whole(1024))
        /\ Equals(Plus(Plus(Drawn.y, Drawn.y), Drawn.height), Whole(1024))
        /\ (w = 2000 /\ h = 1000) =>
                /\ Equals(Drawn.width, Whole(1024)) /\ Equals(Drawn.height, Whole(512))
                /\ Equals(Drawn.x, Whole(0)) /\ Equals(Drawn.y, Whole(256))

\* a 2000 x 1000 image has been drawn, 512 high
C18_Witness ==
    /\ IsDefined(settled) /\ ~settled[1].threw
    /\ call[1].width = 2000 /\ call[1].height = 1000
    /\ Equals(Drawn.height, Whole(512))


(* --------------------- claims about the busy flag --------------------- *)
\* what the mounted editor still awaits
InFlight == {k \in 1..Len(pending) : pending[k].live}

\* C21: whenever a normalization or an edit started by the mounted editor has
\* not settled yet, the busy flag is set.
C21_BusyCoversInFlight == InFlight # {} => isLoading

\* an edit of the mounted editor stays in flight across the step
EditStaysInFlight ==
    /\ event'.op # "handleResetApp"
    /\ Cardinality(LiveEdits) >
            (IF event'.op = "handleEditSettled" /\ event'.live THEN 1 ELSE 0)

\* C23: while the busy flag is set Undo and Redo are disabled; between the
\* submission of an edit and its completion neither the history nor the cursor
\* changes, so an edit commits at the cursor and on the history it was
\* submitted with.
C23_FrozenWhileLoading ==
    /\ [](isLoading => (UndoDisabled /\ RedoDisabled))
    /\ [][EditStaysInFlight => UNCHANGED <<history, currentIndex>>]_vars
    /\ [][EditCommitted =>
            \A k \in SettledAt \cap LiveEdits :
                currentIndex = pending[k].currentIndex /\ history = pending[k].history]_vars

\* an operation of the mounted editor ends in this step
Ends ==
    \/ event'.op \in {"processImageSettled", "handleEditSettled"} /\ event'.live
    \/ event'.op \in {"onClick", "handleKeyDown"} /\ event'.threw

\* C22: as long as the promises settle, the busy flag is clear again and again,
\* that is, whenever it is set it is cleared later;
\* the step that ends an operation clears it and does exactly one of two things:
\* it puts the result into the history (the one normalized image, or a new last
\* version under the cursor) and leaves the message alone, or it sets a message
\* and leaves the history and the cursor alone.
C22_EndsAndReleases ==
    /\ []<>(~isLoading)
    /\ [][Ends =>
            /\ ~isLoading'
            /\ IF event'.threw
               THEN IsDefined(error') /\ UNCHANGED <<history, currentIndex>>
               ELSE /\ history' # <<>> /\ currentIndex' = Len(history') - 1
                    /\ (event'.op = "processImageSettled" => Len(history') = 1)
                    /\ (event'.op = "handleEditSettled" => Len(history') >= 2)
                    /\ UNCHANGED error]_vars

\* an edit has failed: the flag is cleared, the message is set
C22_Witness ==
    /\ event.op = "handleEditSettled" /\ event.live /\ event.threw
    /\ ~isLoading /\ IsDefined(error)
    /\ pending = <<>>


(* ------------------ claims about a failed normalization ---------------- *)
NormalizationFailed == event'.op = "processImageSettled" /\ event'.live /\ event'.threw
\* the editor is mounted, idle, and has no version: its normalization has failed
NoVersion == Mounted /\ history = <<>> /\ ~isLoading

\* C24: a failed normalization leaves the history empty and the cursor at -1,
\* sets a message and clears the busy flag.  In that state Generate Edit, Undo
\* and Redo are disabled, Enter submits nothing, and the undo and redo handlers
\* would leave the cursor where it is; until Start Over no step changes the
\* history or the cursor or starts a request.
C24_FailedNormalization ==
    /\ [][NormalizationFailed =>
            (history' = <<>> /\ currentIndex' = -1 /\ IsDefined(error') /\ ~isLoading')]_vars
    /\ [](NoVersion =>
            /\ currentIndex = -1 /\ InFlight = {}
            /\ GenerateDisabled /\ UndoDisabled /\ RedoDisabled
            /\ ~keyDownSubmits(prompt, currentImageUrl, isLoading)
            /\ handleUndo(currentIndex) = currentIndex
            /\ handleRedo(currentIndex, history) = currentIndex)
    /\ [][(NoVersion /\ event'.op # "handleResetApp") =>
            /\ UNCHANGED <<history, currentIndex, isLoading>>
            /\ Len(pending') <= Len(pending)
            /\ event'.op \notin {"onClick", "handleUndo", "handleRedo"}]_vars

\* after a failed normalization an instruction is typed and Enter is pressed:
\* nothing is submitted
C24_Witness ==
    /\ NoVersion /\ trim(prompt) # <<>>
    /\ event.op = "handleKeyDownIgnored"
    /\ pending = <<>>


(* ----------------- sw.js: the fetch events of the worker ---------------- *)
InitWorker ==
    /\ service = ImportedService
    /\ imageFile = NoFile
    /\ history = <<>>
    /\ currentIndex = -1
    /\ prompt = <<>>
    /\ isLoading = FALSE
    /\ error = Undefined
    /\ pending = <<>>
    /\ event = Plain("init")
    /\ call = Undefined
    /\ settled = Undefined
    /\ caches = InstalledCaches
    /\ fetches = <<>>

\* the listener: a request that is no GET is left to the browser, for a GET
\* respondWith is called with a promise that starts at caches.match
onfetch(request) ==
    /\ Len(fetches) < MaxFetches
    /\ fetches' = Append(fetches,
                    FetchEvent(request, IF request.method # "GET" THEN "return" ELSE "caches.match"))
    /\ caches' = caches
    /\ event' = Plain("fetch")

\* caches.match resolves: a cached response is returned as it is, otherwise
\* fetch(event.request) is called
cachesMatchResolves(k) ==
    /\ fetches[k].stage = "caches.match"
    /\ LET cachedResponse == cachesMatch(caches, fetches[k].request) IN
       fetches' = [fetches EXCEPT ![k] =
                    IF IsDefined(cachedResponse)
                    THEN [@ EXCEPT !.stage = "done", !.cachedResponse = cachedResponse,
                                   !.respondWith = cachedResponse]
                    ELSE [@ EXCEPT !.stage = "fetch", !.fetched = TRUE]]
    /\ caches' = caches
    /\ event' = Plain("caches.match")

\* fetch settles: a response is returned to respondWith while caches.open is on
\* its way; a rejection is logged by the catch, which returns nothing
fetchSettles(k, outcome) ==
    /\ fetches[k].stage = "fetch"
    /\ fetches' = [fetches EXCEPT ![k] =
                    IF outcome.threw
                    THEN [@ EXCEPT !.stage = "done"]
                    ELSE [@ EXCEPT !.stage = "caches.open",
                                   !.networkResponse = Some(outcome.value),
                                   !.respondWith = Some(outcome.value)]]
    /\ caches' = caches
    /\ event' = Event("fetchSettled", TRUE, outcome.threw)

\* (variant: every response of the network is stored)
cachesOpenResolvesPutsAll(k) ==
    /\ fetches[k].stage = "caches.open"
    /\ fetches' = [fetches EXCEPT ![k] = [@ EXCEPT !.stage = "done", !.put = TRUE]]
    /\ caches' = cachePut(caches, fetches[k].request, fetches[k].networkResponse[1])
    /\ event' = Plain("caches.open")

\* caches.open resolves: the clone is put in the cache if the response is ok or
\* opaque
cachesOpenResolves(k) ==
    /\ fetches[k].stage = "caches.open"
    /\ LET networkResponse == fetches[k].networkResponse[1] IN
       IF networkResponse.ok \/ networkResponse.type = "opaque"
       THEN /\ fetches' = [fetches EXCEPT ![k] = [@ EXCEPT !.stage = "done", !.put = TRUE]]
            /\ caches' = cachePut(caches, fetches[k].request, networkResponse)
       ELSE /\ fetches' = [fetches EXCEPT ![k] = [@ EXCEPT !.stage = "done"]]
            /\ caches' = caches
    /\ event' = Plain("caches.open")

Dispatch ==
    /\ \E request \in Requests : onfetch(request)
    /\ UNCHANGED <<service, imageFile, editor, pending, transport>>

MatchResolves ==
    /\ \E k \in 1..Len(fetches) : cachesMatchResolves(k)
    /\ UNCHANGED <<service, imageFile, editor, pending, transport>>

FetchSettles ==
    /\ \E k \in 1..Len(fetches), outcome \in NetworkOutcomes : fetchSettles(k, outcome)
    /\ UNCHANGED <<service, imageFile, editor, pending, transport>>

OpenResolves ==
    /\ \E k \in 1..Len(fetches) : cachesOpenResolves(k)
    /\ UNCHANGED <<service, imageFile, editor, pending, transport>>

NextWorker == Dispatch \/ MatchResolves \/ FetchSettles \/ OpenResolves

SpecWorker == InitWorker /\ [][NextWorker]_vars

(* --------------------- claims about the service worker ------------------ *)
\* the response held for a url by the cache of the worker
Held(storage, url) == storage[CACHE_NAME][url]

\* the fetch event whose step this is
Stepped == {k \in 1..Len(fetches) : fetches'[k] # fetches[k]}

\* C25: a fetch event for a request that is no GET is never answered by the
\* worker, makes it fetch nothing and puts nothing in the cache.  A GET that has
\* a cached response when caches.match resolves is answered with that response
\* and the worker fetches nothing for it; a GET that has none is fetched from
\* the network.  The cache changes only by a put of the network's response for
\* a GET that was fetched, and only if that response is ok or opaque.
C25_FetchPolicy ==
    /\ [](\A k \in 1..Len(fetches) :
            LET f == fetches[k] IN
            /\ f.request.method # "GET" =>
                    (~IsDefined(f.respondWith) /\ ~IsDefined(f.cachedResponse)
                        /\ ~f.fetched /\ ~f.put)
            /\ IsDefined(f.cachedResponse) =>
                    (f.respondWith = f.cachedResponse /\ ~f.fetched /\ ~f.put /\ f.stage = "done")
            /\ f.put => (f.fetched /\ f.request.method = "GET" /\ IsDefined(f.networkResponse)
                            /\ (f.networkResponse[1].ok \/ f.networkResponse[1].type = "opaque")))
    /\ [][event'.op = "caches.match" =>
            \A k \in Stepped :
                LET held == Held(caches, fetches[k].request.url) IN
                IF IsDefined(held)
                THEN fetches'[k].cachedResponse = held /\ ~fetches'[k].fetched
                ELSE fetches'[k].fetched /\ ~IsDefined(fetches'[k].respondWith)]_vars
    /\ [][caches' # caches =>
            \E k \in Stepped :
                LET f == fetches[k] IN
                /\ f.request.method = "GET" /\ f.fetched /\ fetches'[k].put
                /\ (f.networkResponse[1].ok \/ f.networkResponse[1].type = "opaque")
                /\ \A url \in Urls :
                    Held(caches', url) =
                        IF url = f.request.url THEN f.networkResponse ELSE Held(caches, url)]_vars
    /\ [][event'.op = "caches.open" =>
            \A k \in Stepped :
                (fetches[k].networkResponse[1].ok => Held(caches', fetches[k].request.url) = fetches[k].networkResponse)]_vars

\* a GET that was not cached has been fetched and stored, a later GET of the
\* same url has been answered from the cache without a fetch, and a POST has
\* been left alone
C25_Witness ==
    /\ Len(fetches) = 3
    /\ fetches[1].request.method = "GET" /\ fetches[1].fetched /\ fetches[1].put
    /\ fetches[2].request = fetches[1].request
    /\ fetches[2].cachedResponse = fetches[1].networkResponse /\ ~fetches[2].fetched
    /\ fetches[2].respondWith = fetches[1].networkResponse
    /\ fetches[3].request.method = "POST" /\ fetches[3].stage = "return"

=============================================================================
